---- MODULE Spec2Model ----
(***************************************************************************)
(* A model of app.py: the text normaliser, the two canonical dictionaries, *)
(* the fuzzy corrector (with difflib's similarity ratio), and clean_file   *)
(* as called by the /clean route.                                          *)
(*                                                                         *)
(* A Python str is a sequence of one-character strings.  A cell value is a *)
(* record [tag, s, n]: a missing value (NaN), a str, or an int.            *)
(***************************************************************************)
EXTENDS Integers, Sequences, FiniteSets, TLC

VARIABLES
    district_map,   \* app.py:50, ordered dict as a sequence of <<key, canonical>>
    state_map,      \* app.py:51
    value,          \* the argument of a call of normalize / fuzzy_correct
    which,          \* "district" or "state": the mapping that call is given
    fn_pc,          \* position of that call
    key,            \* what normalize(value) returned
    result,         \* what fuzzy_correct(value, mapping) returned
    result2,        \* what fuzzy_correct(result, mapping) returned
    pc,             \* per request: where the route / clean_file stands
    upload,         \* per request: the POST (file part, filename, file contents)
    df,             \* per request: the DataFrame of clean_file
    state_col,      \* per request: clean_file's state_col
    district_col,   \* per request: clean_file's district_col
    output,         \* per request: the file at output_path
    exc,            \* per request: the exception in flight
    response,       \* per request: what the route returned
    steps           \* per request: the steps of clean_file begun so far

-----------------------------------------------------------------------------
(* Bounds of the model.                                                    *)

\* longest string enumerated over SmallAlphabet
MaxLen == 3
\* characters dropped from a seed name to make a misspelling
MaxDrop == 2
\* largest int cell
MaxInt == 1
\* most columns of a table
MaxCols == 3
\* most rows of a table
MaxRows == 1

-----------------------------------------------------------------------------
(* Characters.                                                             *)

UpperCase == <<"A", "B", "C", "D", "E", "F", "G", "H", "I", "J", "K", "L", "M", "N", "O", "P", "Q", "R", "S", "T", "U", "V", "W", "X", "Y", "Z">>
LowerCase == <<"a", "b", "c", "d", "e", "f", "g", "h", "i", "j", "k", "l", "m", "n", "o", "p", "q", "r", "s", "t", "u", "v", "w", "x", "y", "z">>
Digits == <<"0", "1", "2", "3", "4", "5", "6", "7", "8", "9">>

\* the characters of the model in code-point order
CodePoints ==
    <<"\t", "\n", " ", "!", "'", ",", "-", ".">> \o Digits \o UpperCase
        \o <<"_">> \o LowerCase

Range(f) == {f[i] : i \in DOMAIN f}

\* ord(c), up to a shift: only the order matters
Ord(c) == CHOOSE i \in DOMAIN CodePoints : CodePoints[i] = c

\* str.isspace for one character
IsSpace(c) == c \in {" ", "\t", "\n"}

\* the regex class \w
IsWord(c) == c \in Range(UpperCase) \cup Range(LowerCase) \cup Range(Digits) \cup {"_"}

LowerChar(c) ==
    IF c \in Range(UpperCase)
    THEN LowerCase[CHOOSE i \in DOMAIN UpperCase : UpperCase[i] = c]
    ELSE c

\* str.lower()
lower(s) == [i \in DOMAIN s |-> LowerChar(s[i])]

RECURSIVE lstrip(_)
lstrip(s) == IF s # <<>> /\ IsSpace(Head(s)) THEN lstrip(Tail(s)) ELSE s

RECURSIVE rstrip(_)
rstrip(s) ==
    IF s # <<>> /\ IsSpace(s[Len(s)]) THEN rstrip(SubSeq(s, 1, Len(s) - 1)) ELSE s

\* str.strip()
strip(s) == rstrip(lstrip(s))

\* re.sub(r"[^\w\s]", "", s)
re_sub_punct(s) == SelectSeq(s, LAMBDA c : IsWord(c) \/ IsSpace(c))

\* str(n) for an int n >= 0
RECURSIVE str_int(_)
str_int(n) ==
    IF n < 10 THEN <<Digits[n + 1]>> ELSE str_int(n \div 10) \o <<Digits[(n % 10) + 1]>>

-----------------------------------------------------------------------------
(* The str literals of the program and of the examples.                    *)

S_ANDHRA_PRADESH ==
    <<"A", "N", "D", "H", "R", "A", " ", "P", "R", "A", "D", "E", "S", "H">>
S_Allahabad ==
    <<"A", "l", "l", "a", "h", "a", "b", "a", "d">>
S_Andhra_Pradesh ==
    <<"A", "n", "d", "h", "r", "a", " ", "P", "r", "a", "d", "e", "s", "h">>
S_Ayodhya ==
    <<"A", "y", "o", "d", "h", "y", "a">>
S_Bardhaman ==
    <<"B", "a", "r", "d", "h", "a", "m", "a", "n">>
S_Cudapah ==
    <<"C", "u", "d", "a", "p", "a", "h">>
S_Cuddapah ==
    <<"C", "u", "d", "d", "a", "p", "a", "h">>
S_Cuddapah_padded_bang ==
    <<" ", "C", "u", "d", "d", "a", "p", "a", "h", "!", " ">>
S_District_Code ==
    <<"D", "i", "s", "t", "r", "i", "c", "t", "_", "C", "o", "d", "e">>
S_Faizabad ==
    <<"F", "a", "i", "z", "a", "b", "a", "d">>
S_Hooghly ==
    <<"H", "o", "o", "g", "h", "l", "y">>
S_Hugli ==
    <<"H", "u", "g", "l", "i">>
S_Kadapa ==
    <<"K", "a", "d", "a", "p", "a">>
S_Mumbai ==
    <<"M", "u", "m", "b", "a", "i">>
S_Mumbai_padded_bang ==
    <<" ", "M", "u", "m", "b", "a", "i", "!", " ">>
S_Odisha ==
    <<"O", "d", "i", "s", "h", "a">>
S_Orissa ==
    <<"O", "r", "i", "s", "s", "a">>
S_Population ==
    <<"P", "o", "p", "u", "l", "a", "t", "i", "o", "n">>
S_Prayagraj ==
    <<"P", "r", "a", "y", "a", "g", "r", "a", "j">>
S_Purba_Bardhaman ==
    <<"P", "u", "r", "b", "a", " ", "B", "a", "r", "d", "h", "a", "m", "a", "n">>
S_STATE_NAME ==
    <<"S", "T", "A", "T", "E", "_", "N", "A", "M", "E">>
S_Uttarakhand ==
    <<"U", "t", "t", "a", "r", "a", "k", "h", "a", "n", "d">>
S_Uttaranchal ==
    <<"U", "t", "t", "a", "r", "a", "n", "c", "h", "a", "l">>
S_WESTBENGAL ==
    <<"W", "E", "S", "T", "B", "E", "N", "G", "A", "L">>
S_West_Bengal ==
    <<"W", "e", "s", "t", " ", "B", "e", "n", "g", "a", "l">>
S_West_Bengla ==
    <<"W", "e", "s", "t", " ", "B", "e", "n", "g", "l", "a">>
S_Ysr_Kadapa ==
    <<"Y", "s", "r", " ", "K", "a", "d", "a", "p", "a">>
S_a_CSV ==
    <<"a", ".", "C", "S", "V">>
S_a_csv ==
    <<"a", ".", "c", "s", "v">>
S_a_txt ==
    <<"a", ".", "t", "x", "t">>
S_a_xlsx ==
    <<"a", ".", "x", "l", "s", "x">>
S_andhra_pradesh ==
    <<"a", "n", "d", "h", "r", "a", " ", "p", "r", "a", "d", "e", "s", "h">>
S_csv ==
    <<"c", "s", "v">>
S_cudapah ==
    <<"c", "u", "d", "a", "p", "a", "h">>
S_cuddapah ==
    <<"c", "u", "d", "d", "a", "p", "a", "h">>
S_district ==
    <<"d", "i", "s", "t", "r", "i", "c", "t">>
S_dot_csv ==
    <<".", "c", "s", "v">>
S_mumbai ==
    <<"m", "u", "m", "b", "a", "i">>
S_state ==
    <<"s", "t", "a", "t", "e">>
S_state_district ==
    <<"s", "t", "a", "t", "e", "_", "d", "i", "s", "t", "r", "i", "c", "t">>
S_xls ==
    <<"x", "l", "s">>
S_xlsx ==
    <<"x", "l", "s", "x">>

-----------------------------------------------------------------------------
(* Values.                                                                 *)

NaN == [tag |-> "nan", s |-> <<>>, n |-> 0]
None == [tag |-> "none", s |-> <<>>, n |-> 0]
StrV(s) == [tag |-> "str", s |-> s, n |-> 0]
IntV(n) == [tag |-> "int", s |-> <<>>, n |-> n]

\* pd.isna on a scalar
isna(v) == v.tag \in {"nan", "none"}

\* str(v) for a non-missing value
str(v) == IF v.tag = "int" THEN str_int(v.n) ELSE v.s

\* normalize without .lower(): the upper-cased spelling is another key
normalize_no_lower(text) ==
    IF isna(text) THEN None ELSE StrV(re_sub_punct(strip(str(text))))

\* normalize without .strip()
normalize_no_strip(text) ==
    IF isna(text) THEN None ELSE StrV(re_sub_punct(lower(str(text))))

normalize(text) ==
    IF isna(text) THEN None ELSE StrV(re_sub_punct(strip(lower(str(text)))))

-----------------------------------------------------------------------------
(* Dictionaries.                                                           *)

district_renames ==
    << <<S_Cuddapah, S_Ysr_Kadapa>>,
       <<S_Allahabad, S_Prayagraj>>,
       <<S_Faizabad, S_Ayodhya>>,
       <<S_Bardhaman, S_Purba_Bardhaman>>,
       <<S_Hugli, S_Hooghly>> >>

state_corrections ==
    << <<S_WESTBENGAL, S_West_Bengal>>,
       <<S_Orissa, S_Odisha>>,
       <<S_andhra_pradesh, S_Andhra_Pradesh>>,
       <<S_Uttaranchal, S_Uttarakhand>> >>

\* the keys of a dict, in iteration order
keys(mapping) == [i \in DOMAIN mapping |-> mapping[i][1]]

\* k in mapping
contains(mapping, k) == \E i \in DOMAIN mapping : mapping[i][1] = k

\* mapping[k]
get(mapping, k) == mapping[CHOOSE i \in DOMAIN mapping : mapping[i][1] = k][2]

\* mapping[k] = v: an existing key keeps its place, a new one goes last
setitem(mapping, k, v) ==
    IF contains(mapping, k)
    THEN [i \in DOMAIN mapping |-> IF mapping[i][1] = k THEN <<k, v>> ELSE mapping[i]]
    ELSE Append(mapping, <<k, v>>)

\* the comprehension with the raw names as keys
RECURSIVE build_map_raw(_)
build_map_raw(seed) ==
    IF seed = <<>> THEN <<>>
    ELSE LET rest == build_map_raw(SubSeq(seed, 1, Len(seed) - 1))
             last == seed[Len(seed)]
         IN  setitem(rest, last[1], last[2])

\* {normalize(k): v for k, v in seed.items()}
RECURSIVE build_map(_)
build_map(seed) ==
    IF seed = <<>> THEN <<>>
    ELSE LET rest == build_map(SubSeq(seed, 1, Len(seed) - 1))
             last == seed[Len(seed)]
         IN  setitem(rest, normalize(StrV(last[1])).s, last[2])

-----------------------------------------------------------------------------
(* difflib.SequenceMatcher(None, a, b), no junk (autojunk needs len(b) >=   *)
(* 200).  Indices are 1-based and half-open: a[alo .. ahi-1].               *)

\* the number of elements a[i..] and b[j..] have in common from the start
RECURSIVE match_run(_, _, _, _, _, _)
match_run(a, b, i, j, ahi, bhi) ==
    IF i < ahi /\ j < bhi /\ a[i] = b[j]
    THEN 1 + match_run(a, b, i + 1, j + 1, ahi, bhi)
    ELSE 0

\* find_longest_match(alo, ahi, blo, bhi) as <<i, j, k>>: a longest block
\* a[i..i+k-1] = b[j..j+k-1]; of the longest blocks the one that starts
\* earliest in a, and of those the one that starts earliest in b; <<alo, blo, 0>>
\* when nothing matches.
find_longest_match(a, b, alo, ahi, blo, bhi) ==
    LET run == [i \in alo .. ahi - 1 |->
                   [j \in blo .. bhi - 1 |-> match_run(a, b, i, j, ahi, bhi)]]
        sizes == {run[i][j] : i \in alo .. ahi - 1, j \in blo .. bhi - 1}
        k == IF sizes = {} THEN 0 ELSE CHOOSE x \in sizes : \A y \in sizes : y <= x
    IN  IF k = 0 THEN <<alo, blo, 0>>
        ELSE LET i == CHOOSE x \in alo .. ahi - 1 :
                          /\ \E j \in blo .. bhi - 1 : run[x][j] = k
                          /\ \A y \in alo .. x - 1 :
                                 \A j \in blo .. bhi - 1 : run[y][j] # k
                 j == CHOOSE x \in blo .. bhi - 1 :
                          /\ run[i][x] = k
                          /\ \A y \in blo .. x - 1 : run[i][y] # k
             IN  <<i, j, k>>

\* the sum of the sizes of get_matching_blocks() inside a[alo..ahi-1], b[blo..bhi-1]
RECURSIVE matching_size(_, _, _, _, _, _)
matching_size(a, b, alo, ahi, blo, bhi) ==
    LET m == find_longest_match(a, b, alo, ahi, blo, bhi)
        i == m[1]
        j == m[2]
        k == m[3]
    IN  IF k = 0 THEN 0
        ELSE k
             + (IF alo < i /\ blo < j THEN matching_size(a, b, alo, i, blo, j) ELSE 0)
             + (IF i + k < ahi /\ j + k < bhi
                THEN matching_size(a, b, i + k, ahi, j + k, bhi) ELSE 0)

\* A ratio is a fraction <<numerator, denominator>>; _calculate_ratio gives
\* 1.0 when both sequences are empty.
calculate_ratio(matches, length) ==
    IF length > 0 THEN <<2 * matches, length>> ELSE <<1, 1>>

\* SequenceMatcher.ratio()
ratio(a, b) ==
    calculate_ratio(matching_size(a, b, 1, Len(a) + 1, 1, Len(b) + 1), Len(a) + Len(b))

count(s, c) == Cardinality({i \in DOMAIN s : s[i] = c})

RECURSIVE sum_min_count(_, _, _)
sum_min_count(a, b, chars) ==
    IF chars = {} THEN 0
    ELSE LET c == CHOOSE x \in chars : TRUE
             ca == count(a, c)
             cb == count(b, c)
         IN  (IF ca < cb THEN ca ELSE cb) + sum_min_count(a, b, chars \ {c})

\* SequenceMatcher.quick_ratio(): the elements in common as multisets
quick_ratio(a, b) == calculate_ratio(sum_min_count(a, b, Range(a)), Len(a) + Len(b))

\* SequenceMatcher.real_quick_ratio()
real_quick_ratio(a, b) ==
    calculate_ratio(IF Len(a) < Len(b) THEN Len(a) ELSE Len(b), Len(a) + Len(b))

\* p >= q, p < q and p = q on fractions with positive denominators
ratio_ge(p, q) == p[1] * q[2] >= q[1] * p[2]
ratio_lt(p, q) == p[1] * q[2] < q[1] * p[2]
ratio_eq(p, q) == p[1] * q[2] = q[1] * p[2]

\* x < y on str: code points, then length
RECURSIVE str_lt(_, _)
str_lt(x, y) ==
    IF y = <<>> THEN FALSE
    ELSE IF x = <<>> THEN TRUE
    ELSE IF Head(x) = Head(y) THEN str_lt(Tail(x), Tail(y))
    ELSE Ord(Head(x)) < Ord(Head(y))

\* (score, x) < (score', x') on tuples
scored_lt(p, q) == ratio_lt(p[1], q[1]) \/ (ratio_eq(p[1], q[1]) /\ str_lt(p[2], q[2]))

\* The loop of get_close_matches: the (score, x) of every possibility x that
\* passes the three tests, in iteration order.  a is x and b is word.
RECURSIVE scored(_, _, _)
scored(word, possibilities, cutoff) ==
    IF possibilities = <<>> THEN <<>>
    ELSE LET x == Head(possibilities)
             rest == scored(word, Tail(possibilities), cutoff)
             r == ratio(x, word)
         IN  IF /\ ratio_ge(real_quick_ratio(x, word), cutoff)
                /\ ratio_ge(quick_ratio(x, word), cutoff)
                /\ ratio_ge(r, cutoff)
             THEN <<<<r, x>>>> \o rest
             ELSE rest

\* max(iterable): the first of the greatest elements
RECURSIVE max_scored(_)
max_scored(items) ==
    IF Len(items) = 1 THEN items[1]
    ELSE LET m == max_scored(Tail(items))
         IN  IF scored_lt(items[1], m) THEN m ELSE items[1]

\* get_close_matches with every possibility admitted, whatever its score
get_close_matches_no_cutoff(word, possibilities, cutoff) ==
    LET res == scored(word, possibilities, <<0, 1>>)
    IN  IF res = <<>> THEN <<>> ELSE <<max_scored(res)[2]>>

\* get_close_matches(word, possibilities, n=1, cutoff): heapq.nlargest(1, result)
\* is [max(result)], or [] for no result
get_close_matches(word, possibilities, cutoff) ==
    LET res == scored(word, possibilities, cutoff)
    IN  IF res = <<>> THEN <<>> ELSE <<max_scored(res)[2]>>

-----------------------------------------------------------------------------
(* The fuzzy corrector.                                                    *)

CutoffNum == 85
CutoffDen == 100
\* the default cutoff=0.85
DefaultCutoff == <<CutoffNum, CutoffDen>>

\* fuzzy_correct returning the normalized key, not the value, on a miss
fuzzy_correct_returns_key(v, mapping, cutoff) ==
    IF isna(v) THEN v
    ELSE LET k == normalize(v).s
         IN  IF contains(mapping, k) THEN StrV(get(mapping, k))
             ELSE LET matches == get_close_matches(k, keys(mapping), cutoff)
                  IN  IF matches # <<>> THEN StrV(get(mapping, matches[1])) ELSE StrV(k)

\* fuzzy_correct with the exact lookup alone
fuzzy_correct_exact_only(v, mapping, cutoff) ==
    IF isna(v) THEN v
    ELSE LET k == normalize(v).s
         IN  IF contains(mapping, k) THEN StrV(get(mapping, k)) ELSE v

fuzzy_correct(v, mapping, cutoff) ==
    IF isna(v) THEN v
    ELSE LET k == normalize(v).s
         IN  IF contains(mapping, k) THEN StrV(get(mapping, k))
             ELSE LET matches == get_close_matches(k, keys(mapping), cutoff)
                  IN  IF matches # <<>> THEN StrV(get(mapping, matches[1])) ELSE v

-----------------------------------------------------------------------------
(* Tables and uploads.                                                     *)

\* a request of the /clean route
Requests == {"r1", "r2"}

\* column names a file may carry
ColumnNames == {S_STATE_NAME, S_District_Code, S_Population, S_state_district}

\* cells a file may carry
CellPool == { StrV(S_Orissa), StrV(S_Hugli) }

\* sequences of length n without repetition over S (read_csv and read_excel
\* give every column a name of its own)
RECURSIVE InjSeqs(_, _)
InjSeqs(S, n) ==
    IF n = 0 THEN {<<>>}
    ELSE UNION {{Append(q, x) : x \in S \ Range(q)} : q \in InjSeqs(S, n - 1)}

\* a DataFrame: the column names in order, and the rows in order
Tables ==
    UNION {{[columns |-> cs, rows |-> rs] :
               cs \in InjSeqs(ColumnNames, c),
               rs \in UNION {[1 .. k -> [1 .. c -> CellPool]] : k \in 0 .. MaxRows}} :
           c \in 1 .. MaxCols}

NoTable == [columns |-> <<>>, rows |-> <<>>]

\* what a file holds: a table, nothing at all, or bytes no parser accepts
Payloads ==
    {[kind |-> "table", table |-> t] : t \in Tables}
        \cup {[kind |-> "empty", table |-> NoTable], [kind |-> "garbage", table |-> NoTable]}

Filenames == { <<>>, S_a_csv, S_a_CSV, S_a_xlsx, S_a_txt }

\* a POST to /clean: with or without a "file" part
Uploads ==
    {[has_file |-> TRUE, filename |-> f, payload |-> p] : f \in Filenames, p \in Payloads}
        \cup {[has_file |-> FALSE, filename |-> <<>>,
               payload |-> [kind |-> "empty", table |-> NoTable]]}

NoUpload == [has_file |-> FALSE, filename |-> <<>>,
             payload |-> [kind |-> "empty", table |-> NoTable]]

\* the table of the end-to-end example and one without a district column
ExampleTable ==
    [columns |-> <<S_STATE_NAME, S_District_Code>>,
     rows |-> << <<StrV(S_Orissa), StrV(S_Hugli)>> >>]

NoDistrictTable ==
    [columns |-> <<S_STATE_NAME, S_Population>>,
     rows |-> << <<StrV(S_Orissa), StrV(S_Hugli)>> >>]

\* the uploads of two requests served at the same time
ConcurrentUploads ==
    {[has_file |-> TRUE, filename |-> S_a_csv, payload |-> p] :
        p \in {[kind |-> "table", table |-> ExampleTable],
               [kind |-> "table", table |-> NoDistrictTable],
               [kind |-> "empty", table |-> NoTable]}}

-----------------------------------------------------------------------------
(* Helpers of the route and of clean_file.                                 *)

\* sub in s
in_str(sub, s) ==
    \E i \in 1 .. Len(s) - Len(sub) + 1 : SubSeq(s, i, i + Len(sub) - 1) = sub

\* s.endswith(suffix)
endswith(s, suffix) ==
    Len(s) >= Len(suffix) /\ SubSeq(s, Len(s) - Len(suffix) + 1, Len(s)) = suffix

\* filename.rsplit(".", 1)[1], for a filename with a "." in it
extension(filename) ==
    LET dot == CHOOSE i \in DOMAIN filename :
                   filename[i] = "." /\ \A j \in i + 1 .. Len(filename) : filename[j] # "."
    IN  SubSeq(filename, dot + 1, Len(filename))

ALLOWED_EXTENSIONS == { S_csv, S_xlsx, S_xls }

allowed_file(filename) ==
    in_str(<<".">>, filename) /\ lower(extension(filename)) \in ALLOWED_EXTENSIONS

\* os.path.join(UPLOAD_FOLDER, f"{uid}_{file.filename}"); the uid is the request's
input_path(r, filename) == <<"uploads/", r, "_">> \o filename
\* os.path.join(OUTPUT_FOLDER, f"cleaned_{uid}_{file.filename}")
output_path(r, filename) == <<"outputs/", "cleaned_", r, "_">> \o filename

\* the format the uploaded bytes are in: that of the file's extension
IsDelimitedText(filename) == lower(extension(filename)) = S_csv

ValueErrorClasses == {"ValueError", "EmptyDataError", "ParserError", "UnicodeDecodeError"}

\* isinstance(e, ValueError)
IsValueError(cls) == cls \in ValueErrorClasses

\* The outcomes of the read at lines 68-71, for the parser the path selects:
\* a table, or an exception [cls, msg].
read_outcomes(path, filename, payload) ==
    LET io == {[ok |-> FALSE, table |-> NoTable, cls |-> "OSError",
                msg |-> "[Errno 5] Input/output error"]}
        err(c, m) == [ok |-> FALSE, table |-> NoTable, cls |-> c, msg |-> m]
        good == {[ok |-> TRUE, table |-> payload.table, cls |-> "", msg |-> ""]}
        unknown == err("ValueError",
                       "Excel file format cannot be determined, you must specify an engine manually.")
    IN  io \cup
        IF endswith(path, S_dot_csv)
        THEN \* pd.read_csv
             CASE payload.kind = "table" -> good
               [] payload.kind = "empty" ->
                     {err("EmptyDataError", "No columns to parse from file")}
               [] OTHER ->
                     {err("ParserError", "Error tokenizing data"),
                      err("UnicodeDecodeError", "'utf-8' codec can't decode byte")}
        ELSE \* pd.read_excel
             CASE payload.kind = "table" /\ ~IsDelimitedText(filename) -> good
               [] payload.kind = "table" -> {unknown}
               [] OTHER -> {unknown, err("BadZipFile", "File is not a zip file")}

\* [c for c in df.columns if sub in c.lower()]
matching_cols(columns, sub) ==
    SelectSeq(columns, LAMBDA c : in_str(sub, lower(c)))

\* the position of column c
col_index(columns, c) == CHOOSE i \in DOMAIN columns : columns[i] = c

\* apply to every column at once
apply_all_cols(t, c, mapping) ==
    [t EXCEPT !.rows =
        [i \in DOMAIN t.rows |->
            [j \in DOMAIN t.rows[i] |-> fuzzy_correct(t.rows[i][j], mapping, DefaultCutoff)]]]

\* df[c] = df[c].apply(lambda x: fuzzy_correct(x, mapping))
apply_col(t, c, mapping) ==
    LET j == col_index(t.columns, c)
    IN  [t EXCEPT !.rows =
            [i \in DOMAIN t.rows |->
                [t.rows[i] EXCEPT ![j] = fuzzy_correct(t.rows[i][j], mapping, DefaultCutoff)]]]

-----------------------------------------------------------------------------
(* State of the requests.                                                  *)

Absent == [kind |-> "absent", format |-> "", table |-> NoTable]
NoExc == [cls |-> "", msg |-> "", raised_in |-> ""]
NoResponse == [branch |-> "", msg |-> "", body |-> Absent]
NoCol == <<>>

vars ==
    <<district_map, state_map, value, which, fn_pc, key, result, result2,
      pc, upload, df, state_col, district_col, output, exc, response, steps>>

fn_vars == <<value, which, fn_pc, key, result, result2>>
req_vars == <<pc, upload, df, state_col, district_col, output, exc, response, steps>>

\* module level, lines 50-51
InitMaps ==
    /\ district_map = build_map(district_renames)
    /\ state_map = build_map(state_corrections)

InitFnIdle ==
    /\ value = NaN
    /\ which = "district"
    /\ fn_pc = "off"
    /\ key = None
    /\ result = NaN
    /\ result2 = NaN

InitRequests(uploads) ==
    /\ upload \in uploads
    /\ pc = [r \in Requests |-> IF upload[r] = NoUpload /\ r # "r1" THEN "off" ELSE "start"]
    /\ df = [r \in Requests |-> NoTable]
    /\ state_col = [r \in Requests |-> NoCol]
    /\ district_col = [r \in Requests |-> NoCol]
    /\ output = [r \in Requests |-> Absent]
    /\ exc = [r \in Requests |-> NoExc]
    /\ response = [r \in Requests |-> NoResponse]
    /\ steps = [r \in Requests |-> <<>>]

\* one request at a time, over every upload
Init ==
    /\ InitMaps
    /\ InitFnIdle
    /\ InitRequests({[r \in Requests |-> IF r = "r1" THEN u ELSE NoUpload] :
                        u \in Uploads})

\* two requests served at the same time
InitConc ==
    /\ InitMaps
    /\ InitFnIdle
    /\ InitRequests([Requests -> ConcurrentUploads])

raise(r, cls, msg, where) ==
    /\ exc' = [exc EXCEPT ![r] = [cls |-> cls, msg |-> msg, raised_in |-> where]]
    /\ pc' = [pc EXCEPT ![r] = "raised"]

respond(r, branch, msg, body) ==
    /\ response' = [response EXCEPT ![r] = [branch |-> branch, msg |-> msg, body |-> body]]
    /\ pc' = [pc EXCEPT ![r] = "responded"]

\* clean(), lines 105-124: the checks of the request, the two paths, and
\* file.save, which may fail as any write may
Receive(r) ==
    /\ pc[r] = "start"
    /\ IF ~upload[r].has_file
       THEN respond(r, "rejected", "Please upload a file", Absent) /\ UNCHANGED exc
       ELSE IF upload[r].filename = <<>>
       THEN respond(r, "rejected", "No file selected", Absent) /\ UNCHANGED exc
       ELSE IF ~allowed_file(upload[r].filename)
       THEN /\ respond(r, "rejected", "Only CSV and Excel files are allowed", Absent)
            /\ UNCHANGED exc
       ELSE \/ /\ pc' = [pc EXCEPT ![r] = "clean_file"]
               /\ UNCHANGED <<response, exc>>
            \/ /\ raise(r, "OSError", "[Errno 28] No space left on device", "Save")
               /\ UNCHANGED response
    /\ UNCHANGED <<district_map, state_map, fn_vars, upload, df, state_col,
                   district_col, output, steps>>

\* clean_file, lines 68-71
Load(r) ==
    /\ pc[r] = "clean_file"
    /\ steps' = [steps EXCEPT ![r] = Append(@, "Load")]
    /\ \E o \in read_outcomes(input_path(r, upload[r].filename),
                              upload[r].filename, upload[r].payload) :
          IF o.ok
          THEN /\ df' = [df EXCEPT ![r] = o.table]
               /\ pc' = [pc EXCEPT ![r] = "loaded"]
               /\ UNCHANGED exc
          ELSE /\ raise(r, o.cls, o.msg, "Load")
               /\ UNCHANGED df
    /\ UNCHANGED <<district_map, state_map, fn_vars, upload, state_col,
                   district_col, output, response>>

\* the column check with the district test first
LocateColumnsDistrictFirst(r) ==
    /\ pc[r] = "loaded"
    /\ steps' = [steps EXCEPT ![r] = Append(@, "Locate")]
    /\ LET state_cols == matching_cols(df[r].columns, S_state)
           district_cols ==
               matching_cols(df[r].columns, S_district)
       IN  IF district_cols = <<>>
           THEN /\ raise(r, "ValueError", "District column not found", "Locate")
                /\ UNCHANGED <<state_col, district_col>>
           ELSE IF state_cols = <<>>
           THEN /\ raise(r, "ValueError", "State column not found", "Locate")
                /\ UNCHANGED <<state_col, district_col>>
           ELSE /\ state_col' = [state_col EXCEPT ![r] = state_cols[1]]
                /\ district_col' = [district_col EXCEPT ![r] = district_cols[1]]
                /\ pc' = [pc EXCEPT ![r] = "located"]
                /\ UNCHANGED exc
    /\ UNCHANGED <<district_map, state_map, fn_vars, upload, df, output, response>>

\* clean_file, lines 74-83
LocateColumns(r) ==
    /\ pc[r] = "loaded"
    /\ steps' = [steps EXCEPT ![r] = Append(@, "Locate")]
    /\ LET state_cols == matching_cols(df[r].columns, S_state)
           district_cols ==
               matching_cols(df[r].columns, S_district)
       IN  IF state_cols = <<>>
           THEN /\ raise(r, "ValueError", "State column not found", "Locate")
                /\ UNCHANGED <<state_col, district_col>>
           ELSE IF district_cols = <<>>
           THEN /\ raise(r, "ValueError", "District column not found", "Locate")
                /\ UNCHANGED <<state_col, district_col>>
           ELSE /\ state_col' = [state_col EXCEPT ![r] = state_cols[1]]
                /\ district_col' = [district_col EXCEPT ![r] = district_cols[1]]
                /\ pc' = [pc EXCEPT ![r] = "located"]
                /\ UNCHANGED exc
    /\ UNCHANGED <<district_map, state_map, fn_vars, upload, df, output, response>>

\* clean_file, line 86
CorrectState(r) ==
    /\ pc[r] = "located"
    /\ steps' = [steps EXCEPT ![r] = Append(@, "CorrectState")]
    /\ df' = [df EXCEPT ![r] = apply_col(@, state_col[r], state_map)]
    /\ pc' = [pc EXCEPT ![r] = "state_done"]
    /\ UNCHANGED <<district_map, state_map, fn_vars, upload, state_col,
                   district_col, output, exc, response>>

\* clean_file, line 87
CorrectDistrict(r) ==
    /\ pc[r] = "state_done"
    /\ steps' = [steps EXCEPT ![r] = Append(@, "CorrectDistrict")]
    /\ df' = [df EXCEPT ![r] = apply_col(@, district_col[r], district_map)]
    /\ pc' = [pc EXCEPT ![r] = "corrected"]
    /\ UNCHANGED <<district_map, state_map, fn_vars, upload, state_col,
                   district_col, output, exc, response>>

\* the outcomes of the write at lines 90-93: the whole table in the format the
\* path selects, or an OSError that leaves no file (the open failed) or an
\* incomplete one (a write failed)
write_outcomes(path, t) ==
    LET fmt == IF endswith(path, S_dot_csv) THEN "csv" ELSE "excel"
    IN  {[ok |-> TRUE, file |-> [kind |-> "file", format |-> fmt, table |-> t]],
         [ok |-> FALSE, file |-> Absent],
         [ok |-> FALSE, file |-> [kind |-> "partial", format |-> fmt, table |-> NoTable]]}

\* the write placed ahead of the two corrections
SerializeBeforeCorrect(r) ==
    /\ pc[r] \in {"located", "corrected"}
    /\ steps' = [steps EXCEPT ![r] = Append(@, "Serialize")]
    /\ \E o \in write_outcomes(output_path(r, upload[r].filename), df[r]) :
          /\ output' = [output EXCEPT ![r] = o.file]
          /\ IF o.ok
             THEN pc' = [pc EXCEPT ![r] = "returned"] /\ UNCHANGED exc
             ELSE raise(r, "OSError", "[Errno 28] No space left on device", "Serialize")
    /\ UNCHANGED <<district_map, state_map, fn_vars, upload, df, state_col,
                   district_col, response>>

\* clean_file, lines 90-93
Serialize(r) ==
    /\ pc[r] = "corrected"
    /\ steps' = [steps EXCEPT ![r] = Append(@, "Serialize")]
    /\ \E o \in write_outcomes(output_path(r, upload[r].filename), df[r]) :
          /\ output' = [output EXCEPT ![r] = o.file]
          /\ IF o.ok
             THEN pc' = [pc EXCEPT ![r] = "returned"] /\ UNCHANGED exc
             ELSE raise(r, "OSError", "[Errno 28] No space left on device", "Serialize")
    /\ UNCHANGED <<district_map, state_map, fn_vars, upload, df, state_col,
                   district_col, response>>

\* clean(), line 126
SendFile(r) ==
    /\ pc[r] = "returned"
    /\ respond(r, "download", "", output[r])
    /\ UNCHANGED <<district_map, state_map, fn_vars, upload, df, state_col,
                   district_col, output, exc, steps>>

\* clean(), lines 128-129: the message shown is str(e)
ExceptValueError(r) ==
    /\ pc[r] = "raised"
    /\ IsValueError(exc[r].cls)
    /\ respond(r, "value_error", exc[r].msg, Absent)
    /\ UNCHANGED <<district_map, state_map, fn_vars, upload, df, state_col,
                   district_col, output, exc, steps>>

\* clean(), lines 131-135
ExceptException(r) ==
    /\ pc[r] = "raised"
    /\ ~IsValueError(exc[r].cls)
    /\ respond(r, "exception", "Error while processing file. Check format and columns.",
               Absent)
    /\ UNCHANGED <<district_map, state_map, fn_vars, upload, df, state_col,
                   district_col, output, exc, steps>>

Next ==
    \E r \in Requests :
        \/ Receive(r)
        \/ Load(r)
        \/ LocateColumns(r)
        \/ CorrectState(r)
        \/ CorrectDistrict(r)
        \/ Serialize(r)
        \/ SendFile(r)
        \/ ExceptValueError(r)
        \/ ExceptException(r)

Spec == Init /\ [][Next]_vars

SpecConc == InitConc /\ [][Next]_vars

-----------------------------------------------------------------------------
(* Calls of normalize and fuzzy_correct on their own.                      *)

UpperChar(c) ==
    IF c \in Range(LowerCase)
    THEN UpperCase[CHOOSE i \in DOMAIN LowerCase : LowerCase[i] = c]
    ELSE c

\* str.upper()
upper(s) == [i \in DOMAIN s |-> UpperChar(s[i])]

Originals(seed) == {seed[i][1] : i \in DOMAIN seed}
Canonicals(seed) == {seed[i][2] : i \in DOMAIN seed}

\* s with up to n of its characters left out
RECURSIVE Drops(_, _)
Drops(s, n) ==
    IF n = 0 THEN {s}
    ELSE {s} \cup UNION {Drops(SubSeq(s, 1, i - 1) \o SubSeq(s, i + 1, Len(s)), n - 1) :
                            i \in DOMAIN s}

\* s in other letter case, padded, and with punctuation around it
Decorated(s) ==
    { s, upper(s), lower(s),
      <<" ">> \o s \o <<" ">>,
      s \o <<"!">>,
      <<" ">> \o s \o <<"!", " ">>,
      s \o <<" ", ".">>,
      <<".", " ">> \o s,
      <<"\t">> \o s \o <<"-", "\n">> }

SmallAlphabet == {"a", "B", " ", "!", "_", "7"}

ShortStrings == UNION {[1 .. n -> SmallAlphabet] : n \in 0 .. MaxLen}

ExampleTexts == { S_Mumbai, S_Cudapah, S_Kadapa, S_West_Bengla }

Texts ==
    LET names == Originals(district_renames) \cup Originals(state_corrections)
        canon == Canonicals(district_renames) \cup Canonicals(state_corrections)
    IN  UNION {Decorated(s) : s \in names \cup canon \cup ExampleTexts}
            \cup UNION {Drops(s, MaxDrop) : s \in names}
            \cup ShortStrings

FnInputs == {NaN} \cup {IntV(n) : n \in 0 .. MaxInt} \cup {StrV(s) : s \in Texts}

mapping_of(w) == IF w = "district" THEN district_map ELSE state_map

InitFn ==
    /\ InitMaps
    /\ value \in FnInputs
    /\ which \in {"district", "state"}
    /\ fn_pc = "ready"
    /\ key = None
    /\ result = NaN
    /\ result2 = NaN
    /\ InitRequests({[r \in Requests |-> NoUpload]})

\* key = normalize(value)
CallNormalize ==
    /\ fn_pc = "ready"
    /\ key' = normalize(value)
    /\ fn_pc' = "normalized"
    /\ UNCHANGED <<district_map, state_map, value, which, result, result2, req_vars>>

\* result = fuzzy_correct(value, mapping)
CallFuzzyCorrect ==
    /\ fn_pc = "normalized"
    /\ result' = fuzzy_correct(value, mapping_of(which), DefaultCutoff)
    /\ fn_pc' = "corrected"
    /\ UNCHANGED <<district_map, state_map, value, which, key, result2, req_vars>>

\* result2 = fuzzy_correct(result, mapping)
CallFuzzyCorrectAgain ==
    /\ fn_pc = "corrected"
    /\ result2' = fuzzy_correct(result, mapping_of(which), DefaultCutoff)
    /\ fn_pc' = "twice"
    /\ UNCHANGED <<district_map, state_map, value, which, key, result, req_vars>>

NextFn ==
    \/ CallNormalize
    \/ CallFuzzyCorrect
    \/ CallFuzzyCorrectAgain

SpecFn == InitFn /\ [][NextFn]_vars

-----------------------------------------------------------------------------
(* Properties.                                                             *)

seed_of(w) == IF w = "district" THEN district_renames ELSE state_corrections

Corrected == fn_pc \in {"corrected", "twice"}

\* the greatest of the similarity ratios of the mapping's keys to word
BestRatioKeys(mapping, word) ==
    {i \in DOMAIN mapping :
        \A j \in DOMAIN mapping :
            ratio_ge(ratio(mapping[i][1], word), ratio(mapping[j][1], word))}

\* C1: for every seed entry (original, canonical) of either dictionary,
\* fuzzy_correct with the matching runtime map returns canonical for the
\* original, for the original upper-cased, and for the original with one
\* leading and one trailing space.
C1_SeedEntriesResolve ==
    Corrected =>
        \A i \in DOMAIN seed_of(which) :
            LET original == seed_of(which)[i][1]
                canonical == seed_of(which)[i][2]
            IN  value \in {StrV(original), StrV(upper(original)),
                           StrV(<<" ">> \o original \o <<" ">>)}
                    => result = StrV(canonical)

C1_Witness ==
    /\ fn_pc = "corrected"
    /\ which = "state"
    /\ value = StrV(S_ANDHRA_PRADESH)
    /\ result = StrV(S_Andhra_Pradesh)

\* C2: on a miss fuzzy_correct returns the very value it was given: a missing
\* value, or a value whose normalized key is no key of the mapping and is
\* less similar than the cutoff to every key, comes back unchanged (same
\* case, whitespace, punctuation and type), never as the normalized key.
C2_MissPassesThrough ==
    Corrected =>
        /\ isna(value) => result = value
        /\ ( /\ ~isna(value)
             /\ ~contains(mapping_of(which), key.s)
             /\ \A i \in DOMAIN mapping_of(which) :
                    ratio_lt(ratio(mapping_of(which)[i][1], key.s), DefaultCutoff) )
           => result = value

C2_Witness ==
    /\ fn_pc = "corrected"
    /\ which = "district"
    /\ value = StrV(S_Mumbai_padded_bang)
    /\ key = StrV(S_mumbai)
    /\ result = value

\* C3: a failure of clean_file during Load or Serialize is never reported
\* through the route's missing-column branch, and the message that branch
\* shows is always "State column not found" or "District column not found".
C3_LoadFailureIsGeneric ==
    \A r \in Requests :
        response[r].branch = "value_error" =>
            /\ exc[r].raised_in \notin {"Load", "Serialize"}
            /\ response[r].msg \in {"State column not found", "District column not found"}

\* the first column whose lower-cased name contains sub, 0 if there is none
FirstWith(columns, sub) ==
    LET hits == {i \in DOMAIN columns : in_str(sub, lower(columns[i]))}
    IN  IF hits = {} THEN 0 ELSE CHOOSE i \in hits : \A j \in hits : i <= j

Located(r) == \E i \in DOMAIN steps[r] : steps[r][i] = "Locate"

\* C4: once clean_file has located the columns, the state column is the first
\* column whose lower-cased name contains "state" and the district column
\* the first whose lower-cased name contains "district"; with no "state"
\* column it has failed with "State column not found" (also when there is
\* no "district" column either), and with a "state" column but no
\* "district" column it has failed with "District column not found".
C4_ColumnLocation ==
    \A r \in Requests :
        Located(r) =>
            LET s == FirstWith(df[r].columns, S_state)
                d == FirstWith(df[r].columns, S_district)
            IN  IF s = 0
                THEN exc[r] = [cls |-> "ValueError", msg |-> "State column not found",
                               raised_in |-> "Locate"]
                ELSE IF d = 0
                THEN exc[r] = [cls |-> "ValueError", msg |-> "District column not found",
                               raised_in |-> "Locate"]
                ELSE /\ exc[r].raised_in # "Locate"
                     /\ state_col[r] = df[r].columns[s]
                     /\ district_col[r] = df[r].columns[d]

C4_Witness ==
    /\ pc["r1"] = "located"
    /\ df["r1"].columns =
          << S_STATE_NAME,
             S_District_Code,
             S_Population >>
    /\ state_col["r1"] = S_STATE_NAME
    /\ district_col["r1"] = S_District_Code

StepOrder == <<"Load", "Locate", "CorrectState", "CorrectDistrict", "Serialize">>

IsPrefix(s, t) == Len(s) <= Len(t) /\ s = SubSeq(t, 1, Len(s))

\* the table clean_file loaded, with every cell of the state column and then
\* every cell of the district column passed through fuzzy_correct
FullyCorrected(r) ==
    LET loaded == upload[r].payload.table
        s == loaded.columns[FirstWith(loaded.columns, S_state)]
        d == loaded.columns[FirstWith(loaded.columns, S_district)]
    IN  [loaded EXCEPT !.rows =
            [i \in DOMAIN loaded.rows |->
                [j \in DOMAIN loaded.columns |->
                    LET c0 == loaded.rows[i][j]
                        c1 == IF loaded.columns[j] = s
                              THEN fuzzy_correct(c0, state_map, DefaultCutoff) ELSE c0
                    IN  IF loaded.columns[j] = d
                        THEN fuzzy_correct(c1, district_map, DefaultCutoff) ELSE c1]]]

\* C5 as stated: whenever clean_file fails, nothing has been produced at
\* output_path.
C5_NoOutputOnAnyFailure ==
    \A r \in Requests : exc[r] # NoExc => output[r] = Absent

\* C5, amended: the steps of clean_file occur in the order Load, Locate
\* Columns, Correct (state, then district), Serialize; output_path is touched
\* only by Serialize, after both columns were located and every cell of both
\* was passed through fuzzy_correct; a failure in Load or Locate Columns
\* leaves nothing at output_path, and a complete output file exists only if
\* clean_file did not fail.
C5_OrderedAndNoEarlyOutput ==
    \A r \in Requests :
        /\ IsPrefix(steps[r], StepOrder)
        /\ output[r] # Absent =>
              /\ steps[r] = StepOrder
              /\ state_col[r] # NoCol
              /\ district_col[r] # NoCol
              /\ df[r] = FullyCorrected(r)
        /\ exc[r].raised_in \in {"Save", "Load", "Locate"} => output[r] = Absent
        /\ output[r].kind = "file" => exc[r] = NoExc /\ output[r].table = df[r]

C5_Witness ==
    /\ pc["r1"] = "responded"
    /\ response["r1"].branch = "download"
    /\ output["r1"].kind = "file"
    /\ output["r1"].table.rows = << <<StrV(S_Odisha), StrV(S_Hooghly)>> >>
    /\ steps["r1"] = StepOrder

\* a cell-by-cell comparison of the written table with the loaded one
CellsAsClaimed(r, same_column(_, _)) ==
    LET loaded == upload[r].payload.table
        written == output[r].table
    IN  /\ written.columns = loaded.columns
        /\ Len(written.rows) = Len(loaded.rows)
        /\ \A i \in DOMAIN loaded.rows :
               /\ DOMAIN written.rows[i] = DOMAIN loaded.rows[i]
               /\ \A j \in DOMAIN loaded.columns :
                      LET c == loaded.columns[j]
                          before == loaded.rows[i][j]
                          after == written.rows[i][j]
                      IN  IF c = state_col[r] /\ c = district_col[r]
                          THEN same_column(before, after)
                          ELSE IF c = state_col[r]
                          THEN after = fuzzy_correct(before, state_map, DefaultCutoff)
                          ELSE IF c = district_col[r]
                          THEN after = fuzzy_correct(before, district_map, DefaultCutoff)
                          ELSE after = before

C7_CanonicalFixedPoints ==
    /\ Corrected /\ value \in {StrV(c) : c \in Canonicals(seed_of(which))}
          => result = value
    /\ fn_pc = "twice" /\ value \in {StrV(o) : o \in Originals(seed_of(which))}
          => result2 = result

C7_Witness ==
    /\ fn_pc = "twice"
    /\ which = "district"
    /\ value = StrV(S_Allahabad)
    /\ result = StrV(S_Prayagraj)
    /\ result2 = StrV(S_Prayagraj)

OnlyKeyChars(s) == \A i \in DOMAIN s : IsWord(s[i]) \/ IsSpace(s[i])
LowerCased(s) == \A i \in DOMAIN s : s[i] \notin Range(UpperCase)
Trimmed(s) == s = <<>> \/ (~IsSpace(s[1]) /\ ~IsSpace(s[Len(s)]))

\* C8 as stated: the key of every non-missing input is lower-cased, holds
\* only word characters and whitespace, and has no leading or trailing
\* whitespace.
C8_KeyIsTrimmed ==
    (fn_pc # "ready" /\ ~isna(value)) =>
        /\ key.tag = "str"
        /\ LowerCased(key.s)
        /\ OnlyKeyChars(key.s)
        /\ Trimmed(key.s)

\* C8, amended: the key of every non-missing input is lower-cased and holds
\* only word characters and whitespace; it has no leading or trailing
\* whitespace when the first and the last non-whitespace character of the
\* input are word characters (punctuation is removed after the strip, so
\* whitespace next to leading or trailing punctuation stays).  Inputs that
\* differ only in letter case and surrounding whitespace have the same key,
\* and " Cuddapah! " has the key of "cuddapah".
C8_NormalizedKey ==
    /\ (fn_pc # "ready" /\ isna(value)) => key = None
    /\ (fn_pc # "ready" /\ ~isna(value)) =>
          LET text == str(value)
              core == strip(text)
          IN  /\ key.tag = "str"
              /\ LowerCased(key.s)
              /\ OnlyKeyChars(key.s)
              /\ (core # <<>> /\ IsWord(core[1]) /\ IsWord(core[Len(core)]))
                    => Trimmed(key.s)
              /\ key = normalize(StrV(upper(text)))
              /\ key = normalize(StrV(<<" ">> \o text \o <<"\t">>))
              /\ value = StrV(S_Cuddapah_padded_bang) => key = StrV(S_cuddapah)

C8_Witness ==
    /\ fn_pc = "normalized"
    /\ value = StrV(S_Cuddapah_padded_bang)
    /\ key = StrV(S_cuddapah)

\* the maps are the ones built at start-up: one key per seed entry, each the
\* normalized original, no two alike
MapsAsBuilt ==
    /\ Len(district_map) = Len(district_renames)
    /\ Len(state_map) = Len(state_corrections)
    /\ \A i \in DOMAIN district_renames :
           district_map[i] = <<re_sub_punct(strip(lower(district_renames[i][1]))),
                               district_renames[i][2]>>
    /\ \A i \in DOMAIN state_corrections :
           state_map[i] = <<re_sub_punct(strip(lower(state_corrections[i][1]))),
                            state_corrections[i][2]>>
    /\ Cardinality(Range(keys(district_map))) = Cardinality(Originals(district_renames))
    /\ Cardinality(Range(keys(state_map))) = Cardinality(Originals(state_corrections))

\* a step changes the table of one request at most, the one that took it
OwnTableOnly ==
    \A r \in Requests :
        df'[r] # df[r] =>
            /\ pc'[r] # pc[r]
            /\ \A q \in Requests \ {r} : df'[q] = df[q] /\ pc'[q] = pc[q]

\* C9: through every interleaving of clean_file invocations district_map and
\* state_map stay the maps built at start-up (every key the normalized
\* original of a seed entry, distinct entries with distinct keys), no step
\* changes them, and each step changes only the table of its own request.
C9_MapsImmutable ==
    /\ []MapsAsBuilt
    /\ [][/\ district_map' = district_map
          /\ state_map' = state_map
          /\ OwnTableOnly]_vars

C9_Witness ==
    /\ pc["r1"] = "state_done"
    /\ pc["r2"] = "corrected"
    /\ df["r1"].rows = << <<StrV(S_Odisha), StrV(S_Hugli)>> >>
    /\ df["r2"].rows = << <<StrV(S_Odisha), StrV(S_Hooghly)>> >>
    /\ Len(district_map) = 5
    /\ Len(state_map) = 4

====
